---- MODULE Spec2Model ----
(***************************************************************************)
(* Model of bedoner/lang/juman/__init__.py: the Juman tokenizer adapter    *)
(* (Tokenizer), its factory (Defaults.create_tokenizer), the language      *)
(* variant (Japanese) and its pickle hook (pickle_japanese).               *)
(*                                                                         *)
(* Python strings are TLA+ strings ("+" is \o, len is Len).  Japanese      *)
(* category names are written in romaji.  A Python exception is a result   *)
(* record with raised = TRUE and the exception in err; every operator that *)
(* models a function returns such a record, and a caller that does not     *)
(* catch passes the record on.                                             *)
(***************************************************************************)
EXTENDS Integers, Sequences, FiniteSets, TLC

VARIABLES
  juman,             \* the analyzer: what analysis(text).mrph_list() does
  token_extensions,  \* Token's class-level table of custom attributes
  nlps,              \* the Japanese instances created so far
  last,              \* the most recent operation and what it gave its caller
  built,             \* history: every Tokenizer as its constructor left it
  failed_before      \* history: some tokenization call has raised

vars == <<juman, token_extensions, nlps, last, built, failed_before>>

-----------------------------------------------------------------------------
(* Bounds of the model. *)

MaxLangs == 2

-----------------------------------------------------------------------------
(* Python values. *)

None == "None"

PyFalse == <<"bool", "False">>
PyStr(s) == <<"str", s>>

NoneKwargs == [py |-> "None", items |-> {}]
Dict(items) == [py |-> "dict", items |-> items]

\* truth value of a str
TruthyStr(s) == s /= ""

\* truth value of an Optional[dict]
TruthyDict(d) == d.py = "dict" /\ d.items /= {}

\* truth value of an Optional[Callable]
TruthyCallable(f) == f /= None

KEY_FSTRING == "juman_fstring"

-----------------------------------------------------------------------------
(* The environment: input texts, preprocessing functions, analyzer.  *)

Texts == {"ab", "AB"}

\* a preprocessing function: widens narrow text ("ab" to "AB") and rejects
\* text that is already wide
pre_widen(text) ==
  CASE text = "ab" -> [raised |-> FALSE, err |-> "", text |-> "AB"]
    [] OTHER       -> [raised |-> TRUE, err |-> "PreprocessError", text |-> ""]

Preprocessors == {"pre_widen"}

\* self.preprocessor(text): the call of a preprocessing function
apply_preprocessor(f, text) ==
  CASE f = "pre_widen" -> pre_widen(text)

\* pyknp.Morpheme values the analyzer can report
Toukyou ==
  [midasi |-> "toukyou", genkei |-> "toukyou", hinsi |-> "meishi",
   bunrui |-> "chimei", fstring |-> "<chimei:nihon>"]
Desu ==
  [midasi |-> "desu", genkei |-> "da", hinsi |-> "hanteishi",
   bunrui |-> "*", fstring |-> "<kihonkei>"]
Unknown ==
  [midasi |-> "xyz", genkei |-> "", hinsi |-> "miteigigo",
   bunrui |-> "sonota", fstring |-> ""]

\* what one analysis(text).mrph_list() can do: raise, or report units
AnalyzerOutcomes ==
  { [raised |-> TRUE,  err |-> "AnalysisError", ml |-> <<>>],
    [raised |-> FALSE, err |-> "", ml |-> <<>>],
    [raised |-> FALSE, err |-> "", ml |-> <<Toukyou, Desu>>],
    [raised |-> FALSE, err |-> "", ml |-> <<Unknown, Desu, Unknown>>] }

\* keyword arguments pyknp.Juman's constructor accepts
JumanOptions ==
  {"command", "server", "port", "timeout", "option", "rcfile",
   "ignorepattern", "pattern", "jumanpp"}

KwargsChoices ==
  { NoneKwargs,
    Dict({}),
    Dict({<<"command", "juman">>}),
    Dict({<<"no_such_option", "1">>}) }

\* Juman(**kwargs) / Juman(): an unknown keyword raises TypeError
Juman(items) ==
  IF \E kv \in items : kv[1] \notin JumanOptions
  THEN [raised |-> TRUE, err |-> "TypeError", handle |-> [kwargs |-> {}]]
  ELSE [raised |-> FALSE, err |-> "", handle |-> [kwargs |-> items]]

\* self.tokenizer.analysis(text).mrph_list(): the analyzer is a fixed
\* function of the text
analysis_mrph_list(handle, text) ==
  [fn |-> "analysis", arg |-> text, raised |-> juman[text].raised,
   err |-> juman[text].err, text |-> "", ml |-> juman[text].ml]

-----------------------------------------------------------------------------
(* The host framework as the adapter uses it: Token.set_extension, the     *)
(* Doc constructor, and the attribute setters of a token.                  *)

Min(a, b) == IF a < b THEN a ELSE b

HasExtension(exts, name) == \E e \in exts : e[1] = name

ExtensionDefault(exts, name) == (CHOOSE e \in exts : e[1] = name)[2]

\* Token.set_extension(name, default=default, force=force) on Token's
\* class-level extension table
set_extension(exts, name, default, force) ==
  IF HasExtension(exts, name) /\ ~force
  THEN [raised |-> TRUE, err |-> "ValueError:E090", exts |-> exts]
  ELSE [raised |-> FALSE, err |-> "",
        exts |-> {e \in exts : e[1] /= name} \cup {<<name, default>>}]

\* Doc(vocab, words=words, spaces=spaces): one token per word, in order
Doc(vocab, words, spaces) ==
  [vocab |-> vocab, words |-> words, spaces |-> spaces,
   lemma |-> [i \in 1..Len(words) |-> ""],
   tag |-> [i \in 1..Len(words) |-> ""],
   user_data |-> {}]

\* len(doc)
DocLen(doc) == Len(doc.words)

RECURSIVE TokenIdx(_, _)
\* token.idx: the character offset of token i in the document's text
TokenIdx(doc, i) ==
  IF i = 1 THEN 0
  ELSE TokenIdx(doc, i - 1) + Len(doc.words[i - 1])
       + (IF doc.spaces[i - 1] THEN 1 ELSE 0)

RECURSIVE TextUpTo(_, _)
TextUpTo(doc, n) ==
  IF n = 0 THEN ""
  ELSE TextUpTo(doc, n - 1) \o doc.words[n]
       \o (IF doc.spaces[n] THEN " " ELSE "")

\* doc.text: every word followed by a space where its spaces entry is True
DocText(doc) == TextUpTo(doc, DocLen(doc))

\* the key under which token._ keeps a value in doc.user_data
UnderscoreKey(doc, i, name) == <<"._.", name, TokenIdx(doc, i)>>

\* token._.set(name, value): AttributeError for an unregistered name
underscore_set(exts, doc, i, name, value) ==
  IF ~HasExtension(exts, name)
  THEN [raised |-> TRUE, err |-> "AttributeError:E047", doc |-> doc]
  ELSE [raised |-> FALSE, err |-> "",
        doc |-> [doc EXCEPT !.user_data =
                  {e \in @ : e[1] /= UnderscoreKey(doc, i, name)}
                  \cup {<<UnderscoreKey(doc, i, name), PyStr(value)>>}]]

\* token._.get(name): the stored value, else the registered default
underscore_get(exts, doc, i, name) ==
  IF \E e \in doc.user_data : e[1] = UnderscoreKey(doc, i, name)
  THEN (CHOOSE e \in doc.user_data : e[1] = UnderscoreKey(doc, i, name))[2]
  ELSE ExtensionDefault(exts, name)

-----------------------------------------------------------------------------
(* class Tokenizer *)

ShortUnitWord(surface, lemma, pos, fstring) ==
  [surface |-> surface, lemma |-> lemma, pos |-> pos, fstring |-> fstring]

\* variant: the two categories joined without the separator
unit_pos_unseparated(m) == m.hinsi \o m.bunrui

\* pos = m.hinsi + "/" + m.bunrui
unit_pos(m) == m.hinsi \o "/" \o m.bunrui

\* variant: the dictionary form without the fall-back to the surface
unit_lemma_without_fallback(m) == m.genkei

\* lemma = m.genkei or surface
unit_lemma(m) == IF TruthyStr(m.genkei) THEN m.genkei ELSE m.midasi

\* the body of detailed_tokens' loop: one ShortUnitWord per unit
unit_word(m) == ShortUnitWord(m.midasi, unit_lemma(m), unit_pos(m), m.fstring)

\* variant: units without a dictionary form are left out
detailed_tokens_skipping(self, text) ==
  LET r == analysis_mrph_list(self.tokenizer, text)
      known == SelectSeq(r.ml, LAMBDA m : TruthyStr(m.genkei))
  IN
  IF r.raised
  THEN [raised |-> TRUE, err |-> r.err, words |-> <<>>, events |-> <<r>>]
  ELSE [raised |-> FALSE, err |-> "",
        words |-> [i \in 1..Len(known) |-> unit_word(known[i])],
        events |-> <<r>>]

\* variant: an analyzer failure is swallowed and gives no words
detailed_tokens_recovering(self, text) ==
  LET r == analysis_mrph_list(self.tokenizer, text) IN
  [raised |-> FALSE, err |-> "",
   words |-> [i \in 1..Len(r.ml) |-> unit_word(r.ml[i])],
   events |-> <<r>>]

\* Tokenizer.detailed_tokens(self, text)
detailed_tokens(self, text) ==
  LET r == analysis_mrph_list(self.tokenizer, text) IN
  IF r.raised
  THEN [raised |-> TRUE, err |-> r.err, words |-> <<>>, events |-> <<r>>]
  ELSE [raised |-> FALSE, err |-> "",
        words |-> [i \in 1..Len(r.ml) |-> unit_word(r.ml[i])],
        events |-> <<r>>]

\* variant: the preprocessing function is never applied
preprocess_skipped(self, text) ==
  [raised |-> FALSE, err |-> "", text |-> text, events |-> <<>>]

\* lines 43-44: if self.preprocessor: text = self.preprocessor(text)
preprocess(self, text) ==
  IF TruthyCallable(self.preprocessor)
  THEN LET r == apply_preprocessor(self.preprocessor, text) IN
       [raised |-> r.raised, err |-> r.err, text |-> r.text,
        events |-> << [fn |-> "preprocessor", arg |-> text,
                       raised |-> r.raised, err |-> r.err,
                       text |-> r.text, ml |-> <<>>] >>]
  ELSE [raised |-> FALSE, err |-> "", text |-> text, events |-> <<>>]

\* variant: every token is followed by a space
trailing_spaces(words) == [i \in 1..Len(words) |-> TRUE]

\* spaces = [False] * len(words)
no_spaces(words) == [i \in 1..Len(words) |-> FALSE]

\* variant: the detail string is stored only when it is not empty
set_token_if_fstring(exts, doc, i, dtoken, key) ==
  IF TruthyStr(dtoken.fstring)
  THEN underscore_set(exts,
                      [doc EXCEPT !.lemma[i] = dtoken.lemma,
                                  !.tag[i] = dtoken.pos],
                      i, key, dtoken.fstring)
  ELSE [raised |-> FALSE, err |-> "",
        doc |-> [doc EXCEPT !.lemma[i] = dtoken.lemma, !.tag[i] = dtoken.pos]]

\* the body of __call__'s loop for the pair (doc[i], dtokens[i])
set_token(exts, doc, i, dtoken, key) ==
  underscore_set(exts,
                 [doc EXCEPT !.lemma[i] = dtoken.lemma, !.tag[i] = dtoken.pos],
                 i, key, dtoken.fstring)

RECURSIVE set_tokens(_, _, _, _, _)
\* for token, dtoken in zip(doc, dtokens): pairs 1..n, stopping at a raise
set_tokens(exts, doc, dtokens, n, key) ==
  IF n = 0 THEN [raised |-> FALSE, err |-> "", doc |-> doc]
  ELSE LET before == set_tokens(exts, doc, dtokens, n - 1, key) IN
       IF before.raised THEN before
       ELSE set_token(exts, before.doc, n, dtokens[n], key)

\* variant: the preprocessing function is dropped once it has been used
self_after_call_consuming(self) == [self EXCEPT !.preprocessor = None]

\* __call__ assigns no attribute of self
self_after_call(self) == self

\* Tokenizer.__call__(self, text)
Tokenizer_call(self, text, exts) ==
  LET pre == preprocess(self, text) IN
  IF pre.raised
  THEN [raised |-> TRUE, err |-> pre.err, docs |-> <<>>,
        events |-> pre.events, self |-> self_after_call(self)]
  ELSE
  LET dt == detailed_tokens(self, pre.text)
      words == [i \in 1..Len(dt.words) |-> dt.words[i].surface]
      doc == Doc(self.vocab, words, no_spaces(words))
      set == set_tokens(exts, doc, dt.words,
                        Min(DocLen(doc), Len(dt.words)), self.key_fstring)
  IN
  IF dt.raised
  THEN [raised |-> TRUE, err |-> dt.err, docs |-> <<>>,
        events |-> pre.events \o dt.events, self |-> self_after_call(self)]
  ELSE IF set.raised
  THEN [raised |-> TRUE, err |-> set.err, docs |-> <<>>,
        events |-> pre.events \o dt.events, self |-> self_after_call(self)]
  ELSE [raised |-> FALSE, err |-> "", docs |-> <<set.doc>>,
        events |-> pre.events \o dt.events, self |-> self_after_call(self)]

\* line 36: Juman(**juman_kwargs) if juman_kwargs else Juman()
make_analyzer(juman_kwargs) ==
  IF TruthyDict(juman_kwargs) THEN Juman(juman_kwargs.items) ELSE Juman({})

\* variant: registration without force
register_fstring_unforced(exts, key) == set_extension(exts, key, PyFalse, FALSE)

\* line 38: Token.set_extension(self.key_fstring, default=False, force=True)
register_fstring(exts, key) == set_extension(exts, key, PyFalse, TRUE)

\* Tokenizer.__init__(self, cls, nlp, juman_kwargs, preprocessor); nlp is a
\* sequence holding the pipeline, or empty for None; fresh names the
\* vocabulary cls.create_vocab(nlp) would create
Tokenizer_init(nlp, juman_kwargs, preprocessor, fresh, exts) ==
  LET vocab == IF nlp /= <<>> THEN nlp[1].vocab ELSE <<"create_vocab", fresh>>
      j  == make_analyzer(juman_kwargs)
      se == register_fstring(exts, KEY_FSTRING)
  IN
  IF j.raised
  THEN [raised |-> TRUE, err |-> j.err, self |-> <<>>, exts |-> exts]
  ELSE IF se.raised
  THEN [raised |-> TRUE, err |-> se.err, self |-> <<>>, exts |-> exts]
  ELSE [raised |-> FALSE, err |-> "",
        self |-> << [vocab |-> vocab, tokenizer |-> j.handle,
                     key_fstring |-> KEY_FSTRING,
                     preprocessor |-> preprocessor] >>,
        exts |-> se.exts]

\* Defaults.create_tokenizer(cls, nlp, juman_kwargs, preprocessor)
create_tokenizer(nlp, juman_kwargs, preprocessor, fresh, exts) ==
  Tokenizer_init(nlp, juman_kwargs, preprocessor, fresh, exts)

-----------------------------------------------------------------------------
(* class Japanese and the pickle hook *)

\* Japanese(meta={"tokenizer": {juman_kwargs, preprocessor}}): Language's
\* constructor creates the vocabulary, then the tokenizer through
\* Defaults.create_tokenizer(nlp, ...); id names the new vocabulary
Japanese(juman_kwargs, preprocessor, id, exts) ==
  LET nlp == [vocab |-> <<"nlp.vocab", id>>]
      t == create_tokenizer(<<nlp>>, juman_kwargs, preprocessor, id, exts)
  IN
  IF t.raised
  THEN [raised |-> TRUE, err |-> t.err, nlp |-> <<>>, exts |-> t.exts]
  ELSE [raised |-> FALSE, err |-> "",
        nlp |-> << [vocab |-> nlp.vocab, tokenizer |-> t.self[1]] >>,
        exts |-> t.exts]

\* Japanese.make_doc(self, text)
make_doc(self, text, exts) == Tokenizer_call(self.tokenizer, text, exts)

\* variant: the tokenizer's configuration travels with the instance
pickle_japanese_with_state(instance) ==
  [callable |-> "Japanese",
   args |-> <<Dict(instance.tokenizer.tokenizer.kwargs),
              instance.tokenizer.preprocessor>>]

\* pickle_japanese(instance): the callable and its argument tuple
pickle_japanese(instance) == [callable |-> "Japanese", args |-> <<>>]

\* unpickling applies the reduced callable to the reduced arguments; an
\* empty tuple leaves every constructor parameter at its default
reconstruct(rv, id, exts) ==
  IF Len(rv.args) = 0
  THEN Japanese(NoneKwargs, None, id, exts)
  ELSE Japanese(rv.args[1], rv.args[2], id, exts)

-----------------------------------------------------------------------------
(* The state machine. *)

NoResult ==
  [op |-> "none", obj |-> 0, src |-> 0, text |-> "", kwargs |-> NoneKwargs,
   raised |-> FALSE, err |-> "", docs |-> <<>>, events |-> <<>>]

Init ==
  /\ juman \in [Texts -> AnalyzerOutcomes]
  /\ token_extensions = {}
  /\ nlps = <<>>
  /\ last = NoResult
  /\ built = <<>>
  /\ failed_before = FALSE

\* nlp = Japanese(meta=...)
NewJapanese(juman_kwargs, preprocessor) ==
  /\ Len(nlps) < MaxLangs
  /\ LET r == Japanese(juman_kwargs, preprocessor, Len(nlps) + 1,
                       token_extensions) IN
     /\ token_extensions' = r.exts
     /\ nlps' = nlps \o r.nlp
     /\ built' = built \o [k \in 1..Len(r.nlp) |-> r.nlp[k].tokenizer]
     /\ last' = [NoResult EXCEPT !.op = "Japanese", !.raised = r.raised,
                 !.err = r.err, !.kwargs = juman_kwargs,
                 !.obj = IF r.raised THEN 0 ELSE Len(nlps) + 1]
  /\ UNCHANGED <<juman, failed_before>>

\* doc = nlps[i].make_doc(text)
MakeDoc(i, text) ==
  /\ i \in DOMAIN nlps
  /\ LET r == make_doc(nlps[i], text, token_extensions) IN
     /\ nlps' = [nlps EXCEPT ![i].tokenizer = r.self]
     /\ last' = [NoResult EXCEPT !.op = "make_doc", !.obj = i,
                 !.text = text, !.raised = r.raised, !.err = r.err,
                 !.docs = r.docs, !.events = r.events]
     /\ failed_before' = (failed_before \/ r.raised)
  /\ UNCHANGED <<juman, token_extensions, built>>

\* restored = pickle.loads(pickle.dumps(nlps[i]))
PickleRoundTrip(i) ==
  /\ i \in DOMAIN nlps
  /\ Len(nlps) < MaxLangs
  /\ LET r == reconstruct(pickle_japanese(nlps[i]), Len(nlps) + 1,
                          token_extensions) IN
     /\ token_extensions' = r.exts
     /\ nlps' = nlps \o r.nlp
     /\ built' = built \o [k \in 1..Len(r.nlp) |-> r.nlp[k].tokenizer]
     /\ last' = [NoResult EXCEPT !.op = "pickle", !.src = i,
                 !.raised = r.raised, !.err = r.err,
                 !.obj = IF r.raised THEN 0 ELSE Len(nlps) + 1]
  /\ UNCHANGED <<juman, failed_before>>

Next ==
  \/ \E kw \in KwargsChoices, pp \in Preprocessors \cup {None} :
       NewJapanese(kw, pp)
  \/ \E i \in 1..MaxLangs, text \in Texts : MakeDoc(i, text)
  \/ \E i \in 1..MaxLangs : PickleRoundTrip(i)

Spec == Init /\ [][Next]_vars

-----------------------------------------------------------------------------
(* Properties. *)

LastIsCall == last.op = "make_doc"

\* the last operation was a tokenization that returned a document
Returned == LastIsCall /\ ~last.raised

\* the document the last tokenization returned
LastDoc == last.docs[1]

\* the adapter the last tokenization ran on
LastSelf == nlps[last.obj].tokenizer

\* that adapter as its constructor left it
LastBuilt == built[last.obj]

\* the analyzer invocations of the last tokenization
Analyses == SelectSeq(last.events, LAMBDA e : e.fn = "analysis")

\* the preprocessing invocations of the last tokenization
Preprocessings == SelectSeq(last.events, LAMBDA e : e.fn = "preprocessor")

\* the units mrph_list() reported to the last tokenization
Units == Analyses[1].ml

RECURSIVE Surfaces(_)
\* the surfaces of a sequence of units, concatenated
Surfaces(ml) == IF ml = <<>> THEN "" ELSE ml[1].midasi \o Surfaces(Tail(ml))

\* C1: a returned document has exactly one token per unit the analyzer
\* reported, in the analyzer's order: as many tokens as units, and the i-th
\* token's text is the i-th unit's surface.
C1_OneTokenPerUnit ==
  Returned =>
    /\ DocLen(LastDoc) = Len(Units)
    /\ \A i \in 1..Len(Units) : LastDoc.words[i] = Units[i].midasi

C1_Witness ==
  /\ Returned
  /\ Len(Units) = 3
  /\ DocLen(LastDoc) = 3

\* C2: every token's lemma is the dictionary form the analyzer reported for
\* its unit, or the unit's surface when there is no dictionary form.
C2_LemmaOrSurface ==
  Returned =>
    \A i \in 1..DocLen(LastDoc) :
      /\ i <= Len(Units)
      /\ Units[i].genkei /= "" => LastDoc.lemma[i] = Units[i].genkei
      /\ Units[i].genkei = "" => LastDoc.lemma[i] = Units[i].midasi

C2_Witness ==
  /\ Returned
  /\ \E i \in 1..DocLen(LastDoc) :
       Units[i].genkei = "" /\ LastDoc.lemma[i] = "xyz"
  /\ \E i \in 1..DocLen(LastDoc) :
       Units[i].genkei /= "" /\ Units[i].genkei /= Units[i].midasi

\* C3: every token's tag is its unit's major category, then "/", then its
\* minor category; the units (meishi, chimei) and (hanteishi, *) give the
\* tags "meishi/chimei" and "hanteishi/*".
C3_TagIsMajorSlashMinor ==
  Returned =>
    /\ \A i \in 1..DocLen(LastDoc) :
         /\ i <= Len(Units)
         /\ LastDoc.tag[i] = Units[i].hinsi \o "/" \o Units[i].bunrui
    /\ Units = <<Toukyou, Desu>> =>
         LastDoc.tag = <<"meishi/chimei", "hanteishi/*">>

C3_Witness ==
  /\ Returned
  /\ Units = <<Toukyou, Desu>>
  /\ LastDoc.tag[2] = "hanteishi/*"

\* C4: on every token the detail-string attribute is the unit's raw
\* annotation string, and no token is left with the registered default.
C4_FstringVerbatim ==
  Returned =>
    \A i \in 1..DocLen(LastDoc) :
      /\ i <= Len(Units)
      /\ underscore_get(token_extensions, LastDoc, i, KEY_FSTRING)
           = PyStr(Units[i].fstring)
      /\ underscore_get(token_extensions, LastDoc, i, KEY_FSTRING)
           /= ExtensionDefault(token_extensions, KEY_FSTRING)

C4_Witness ==
  /\ Returned
  /\ \E i \in 1..DocLen(LastDoc) : Units[i].fstring = ""
  /\ \E i \in 1..DocLen(LastDoc) :
       underscore_get(token_extensions, LastDoc, i, KEY_FSTRING)
         = PyStr("<kihonkei>")

\* C5: no token of a returned document is followed by a space, so the
\* document's text is the analyzer's surfaces concatenated in order.
C5_NoSpaces ==
  Returned =>
    /\ \A i \in 1..DocLen(LastDoc) : ~LastDoc.spaces[i]
    /\ DocText(LastDoc) = Surfaces(Units)

C5_Witness ==
  /\ Returned
  /\ DocLen(LastDoc) >= 2
  /\ DocText(LastDoc) = "toukyoudesu"

C7_FailuresPropagate ==
  /\ LastIsCall =>
       /\ \A k \in 1..Len(last.events) :
            last.events[k].raised =>
              /\ last.raised
              /\ last.err = last.events[k].err
              /\ last.docs = <<>>
              /\ k = Len(last.events)
       /\ (\E k \in 1..Len(last.events) :
             last.events[k].fn = "preprocessor" /\ last.events[k].raised)
            => Analyses = <<>>
  /\ (last.op = "Japanese" /\ make_analyzer(last.kwargs).raised) =>
       /\ last.raised
       /\ last.err = make_analyzer(last.kwargs).err
       /\ last.obj = 0

C7_Witness ==
  /\ LastIsCall
  /\ last.raised
  /\ last.err = "AnalysisError"
  /\ Len(last.events) = 2
  /\ failed_before

\* C8: a pickle round trip of a Japanese instance gives the instance that
\* Japanese() with no arguments gives: its tokenizer has no preprocessor
\* and a default analyzer, whatever the original's tokenizer was given.
C8_PickleDropsAdapterState ==
  (last.op = "pickle") =>
    /\ ~last.raised
    /\ last.obj = Len(nlps)
    /\ nlps[last.obj].tokenizer.preprocessor = None
    /\ nlps[last.obj].tokenizer.tokenizer = [kwargs |-> {}]
    /\ nlps[last.obj]
         = Japanese(NoneKwargs, None, last.obj, token_extensions).nlp[1]

C8_Witness ==
  /\ last.op = "pickle"
  /\ ~last.raised
  /\ nlps[last.src].tokenizer.preprocessor = "pre_widen"
  /\ nlps[last.src].tokenizer.tokenizer.kwargs /= {}
  /\ nlps[last.obj].tokenizer.preprocessor = None

\* C9: once a Tokenizer has been constructed the global registration is
\* (KEY_FSTRING, default False) and stays so through later constructions
\* and tokenizations, and no construction fails because the attribute is
\* already registered.
C9_RegistrationIdempotent ==
  /\ Len(built) >= 1 =>
       token_extensions = {<<KEY_FSTRING, PyFalse>>}
  /\ last.err /= "ValueError:E090"

C9_Witness ==
  /\ Len(built) >= 2
  /\ last.op \in {"Japanese", "pickle"}
  /\ ~last.raised
  /\ failed_before
  /\ token_extensions = {<<KEY_FSTRING, PyFalse>>}

\* C10: tokenization keeps no state: every adapter's preprocessor, analyzer
\* handle, vocabulary and attribute key stay as its constructor set them,
\* and what a tokenization gives its caller is what the adapter as
\* constructed gives for that text, whatever calls came before.
C10_CallKeepsNoState ==
  /\ Len(built) = Len(nlps)
  /\ \A i \in 1..Len(nlps) : nlps[i].tokenizer = built[i]
  /\ LastIsCall =>
       LET r == Tokenizer_call(LastBuilt, last.text, token_extensions) IN
       /\ last.raised = r.raised
       /\ last.err = r.err
       /\ last.docs = r.docs

C10_Witness ==
  /\ Returned
  /\ failed_before
  /\ LastSelf.preprocessor = "pre_widen"
  /\ DocLen(LastDoc) >= 2

====
